---- MODULE Spec2Model ----
(***************************************************************************)
(* yamavel: generation of Laravel migrations, models and Filament          *)
(* resources from a YAML schema (src/yamavel/generator.py, utils.py).      *)
(*                                                                         *)
(* The project root is the function fs from paths to file contents.  A     *)
(* path is a record [dir, ts, name]: the directory, the second-resolution  *)
(* timestamp of a migration file name (-1 for a file name that has none)   *)
(* and the rest of the file name as the sequence of its words, which "_"   *)
(* separates in a migration name ("create_users_table" is                  *)
(* <<"create", "users", "table">>).  A text is the sequence of its tokens. *)
(* The fixed text of the four stubs is not part of the sources; a content  *)
(* records which stub was used and what was substituted for each of its    *)
(* placeholders.                                                           *)
(***************************************************************************)
EXTENDS Integers, Sequences, FiniteSets, TLC

\* ------------------------------------------------------------- bounds
MaxRuns == 2        \* generate() runs started in one behaviour
MaxTime == 1        \* the wall clock shows the seconds 0..MaxTime

Procs == {1, 2}     \* generator instances; the sequential runs use SeqProcs
SeqProcs == {1}

\* ------------------------------------------------------ schema inputs
cName == [name |-> "name", type |-> "string", unique |-> TRUE, foreign |-> <<>>]
cUserId == [name |-> "user_id", type |-> "unsignedBigInteger", unique |-> FALSE,
            foreign |-> <<"users">>]
cId == [name |-> "id", type |-> "id", unique |-> FALSE, foreign |-> <<>>]
cBadId == [name |-> "id", type |-> "invalid_type", unique |-> FALSE, foreign |-> <<>>]

rPosts == [name |-> "posts", type |-> "hasMany", model |-> "Post"]
rBad == [name |-> "posts", type |-> "hasSome", model |-> "Post"]

\* An entity definition: hasTable / hasColumns say whether the key is present.
Config(hasTable, table, hasColumns, columns, relations, fields) ==
    [hasTable |-> hasTable, table |-> table, hasColumns |-> hasColumns,
     columns |-> columns, relations |-> relations, fields |-> fields]

kPlain == Config(FALSE, <<>>, TRUE, <<cName>>, <<>>, <<>>)
kFk == Config(TRUE, <<"users">>, TRUE, <<cUserId>>, <<rPosts>>, <<"name">>)
kFkId == Config(TRUE, <<"users">>, TRUE, <<cUserId, cId, cName>>, <<>>, <<>>)
kFkBad == Config(TRUE, <<"users">>, TRUE, <<cUserId, cBadId>>, <<>>, <<>>)
kNoColumns == Config(TRUE, <<"users">>, FALSE, <<>>, <<>>, <<>>)
kEmptyColumns == Config(TRUE, <<"users">>, TRUE, <<>>, <<>>, <<>>)
kBadRelation == Config(TRUE, <<"users">>, TRUE, <<cName>>, <<rBad>>, <<>>)
kLog == Config(TRUE, <<"users", "table", "log">>, TRUE, <<cName>>, <<>>, <<>>)

UserConfigs == {kPlain, kFk, kFkId, kFkBad, kNoColumns, kEmptyColumns, kBadRelation}
PostConfigs == {kPlain, kFkId, kLog}
Entities == {[name |-> "User", config |-> k] : k \in UserConfigs}
            \cup {[name |-> "Post", config |-> k] : k \in PostConfigs}

\* A schema document: entities in document order, the names (keys) distinct.
Schemas ==
    {<<e>> : e \in Entities}
    \cup {s \in {<<e1, e2>> : e1 \in Entities, e2 \in Entities} : s[1].name # s[2].name}

\* What the schema path holds: no file, an unparseable document, or a schema.
Documents == {[kind |-> "absent", schema |-> <<>>],
              [kind |-> "malformed", schema |-> <<>>]}
             \cup {[kind |-> "schema", schema |-> s] : s \in Schemas}

ColumnTypes == {"id", "string", "text", "integer", "timestamps", "unsignedBigInteger"}
RelationTypes == {"hasMany", "belongsTo", "hasOne", "belongsToMany"}

\* ---------------------------------------------------------- variables
VARIABLES
    fs,         \* the project root: path -> content of the files that exist
    now,        \* the wall clock, in seconds
    runs,       \* runs started so far
    pc,         \* where each instance is: idle, probe, write, model, resource, exit
    source,     \* what the instance's schema path held when it was constructed
    schema,     \* self.schema
    idx,        \* the position of generate()'s loop in the schema
    branch,     \* the migration path _generate_migration chose
    err,        \* the exception the run ended with, "None" when none
    exitCode,   \* the exit status of the run
    reported,   \* whether main() printed "Error: ..." for the exception
    log,        \* the emissions of the instance's current run, in order
    before,     \* the number of migration files when the run started
    first,      \* the schema of the first run, while every run used the same
    allSame     \* whether every run so far used the same schema

vars == <<fs, now, runs, pc, source, schema, idx, branch, err, exitCode, reported,
          log, before, first, allSame>>

MigrationsDir == "database/migrations"
ModelsDir == "app/Models"
ResourcesDir == "app/Filament/Resources"

\* ------------------------------------------------------------ helpers
\* inflection.tableize on the entity names of the inputs.
tableize(model_name) ==
    CASE model_name = "User" -> <<"users">>
      [] model_name = "Post" -> <<"posts">>
      [] OTHER -> <<model_name>>

\* needle in hay, for sequences of words or tokens (Python's `in` on strings).
Contains(hay, needle) ==
    \E i \in 0..(Len(hay) - Len(needle)) :
        \A j \in 1..Len(needle) : hay[i + j] = needle[j]

RECURSIVE Join(_, _)
Join(parts, sep) ==
    IF Len(parts) = 0 THEN <<>>
    ELSE IF Len(parts) = 1 THEN parts[1]
    ELSE parts[1] \o sep \o Join(Tail(parts), sep)

MigrationFiles == {f \in DOMAIN fs : f.dir = MigrationsDir}

\* f"create_{table_name}_table"
CreateMarker(table_name) == <<"create">> \o table_name \o <<"table">>

\* utils.check_table_exists
check_table_exists(table_name) ==
    \E f \in MigrationFiles : Contains(f.name, CreateMarker(table_name))

Quoted(name) == <<"'", name, "'">>

\* utils.check_column_exists
check_column_exists(table_name, column_name) ==
    \E f \in MigrationFiles :
        /\ Contains(f.name, CreateMarker(table_name))
        /\ Contains(fs[f].columns, <<"$table->">>)
        /\ Contains(fs[f].columns, Quoted(column_name))

\* utils.write_file: the file is created or truncated and written.
write_file(files, file_path, content) ==
    [q \in (DOMAIN files) \cup {file_path} |->
        IF q = file_path THEN content ELSE files[q]]

\* One rendered column definition (generator.py 163-168 and 191-196).
Definition(column) ==
    <<"$table->", column.type, "(">> \o Quoted(column.name) \o <<")">>
    \o (IF column.unique THEN <<"->unique()">> ELSE <<>>)
    \o (IF column.foreign # <<>>
        THEN <<"->foreign(">> \o Quoted(column.name) \o <<")->references(">>
             \o Quoted("id") \o <<")->on(">> \o <<"'">> \o column.foreign
             \o <<"'", ")">>
        ELSE <<>>)
    \o <<";">>

Newline == <<"\n">>

Supported(column) == column.type \in ColumnTypes

\* LaravelYamlGenerator._generate_column_definitions: the text, when no column
\* raises UnsupportedColumnTypeError.
CreateRaises(columns) == \E i \in 1..Len(columns) : ~Supported(columns[i])

ColumnDefinitions(columns) ==
    Join([i \in 1..Len(columns) |-> Definition(columns[i])], Newline)

\* LaravelYamlGenerator._generate_update_column_definitions: only the columns
\* for which check_column_exists is false are looked at.
Missing(c, table_name) == ~check_column_exists(table_name, c.name)

UpdateColumns(table_name, columns) ==
    SelectSeq(columns, LAMBDA c : Missing(c, table_name))

UpdateRaises(table_name, columns) == CreateRaises(UpdateColumns(table_name, columns))

UpdateColumnDefinitions(table_name, columns) ==
    ColumnDefinitions(UpdateColumns(table_name, columns))

\* The file name without its timestamp.
MigrationPathNoTimestamp(timestamp, kind, table_name) ==
    [dir |-> MigrationsDir, ts |-> 0,
     name |-> <<kind>> \o table_name \o <<"table">>]

\* f"{timestamp}_create_{table_name}_table.php" under database/migrations
MigrationPath(timestamp, kind, table_name) ==
    [dir |-> MigrationsDir, ts |-> timestamp,
     name |-> <<kind>> \o table_name \o <<"table">>]

ModelPath(model_name) == [dir |-> ModelsDir, ts |-> -1, name |-> <<model_name>>]

ResourcePath(model_name) ==
    [dir |-> ResourcesDir, ts |-> -1, name |-> <<model_name, "Resource">>]

\* A stub with its placeholders replaced.
Content(stub, table, model, columns, relations, formFields, tableColumns) ==
    [stub |-> stub, table |-> table, model |-> model, columns |-> columns,
     relations |-> relations, formFields |-> formFields,
     tableColumns |-> tableColumns]

TableName(entity) ==
    IF entity.config.hasTable THEN entity.config.table ELSE tableize(entity.name)

\* The relation types are not validated.
RelationsRaiseUnchecked(relations) == FALSE

\* LaravelYamlGenerator._generate_relations
RelationsRaise(relations) ==
    \E i \in 1..Len(relations) : relations[i].type \notin RelationTypes

RelationMethod(r) ==
    <<"public function ", r.name, "() { return $this->", r.type, "(", r.model,
      "::class); }">>

Relations(relations) ==
    Join([i \in 1..Len(relations) |-> RelationMethod(relations[i])], <<"\n\n">>)

\* _generate_form_fields / _generate_table_columns
FormFields(fields) ==
    Join([i \in 1..Len(fields) |-> <<"TextInput::make(">> \o Quoted(fields[i]) \o <<")">>],
         <<",\n">>)

TableColumns(columns) ==
    Join([i \in 1..Len(columns) |-> <<"TextColumn::make(">> \o Quoted(columns[i]) \o <<")">>],
         <<",\n">>)

\* One emission: `at` is the second datetime.now() gave for a migration file
\* name (-1 where the clock is not read), `existed` whether the path was there.
Event(ent, kind, file_path, at, wrote, content) ==
    [ent |-> ent, kind |-> kind, path |-> file_path, at |-> at,
     existed |-> file_path \in DOMAIN fs, wrote |-> wrote, content |-> content]

Current(p) == schema[p][idx[p]]

\* ---------------------------------------------------------------- Init
Init ==
    /\ fs = <<>>
    /\ now = 0
    /\ runs = 0
    /\ pc = [p \in Procs |-> "idle"]
    /\ source = [p \in Procs |-> "none"]
    /\ schema = [p \in Procs |-> <<>>]
    /\ idx = [p \in Procs |-> 0]
    /\ branch = [p \in Procs |-> "none"]
    /\ err = [p \in Procs |-> "None"]
    /\ exitCode = [p \in Procs |-> 0]
    /\ reported = [p \in Procs |-> FALSE]
    /\ log = [p \in Procs |-> <<>>]
    /\ before = [p \in Procs |-> 0]
    /\ first = <<>>
    /\ allSame = TRUE

\* ------------------------------------------------------------- actions
\* main()'s except clause: the two load errors are printed, with exit(1); any
\* other exception leaves main() uncaught (a traceback, exit status 1).
Caught(error) == error \in {"InvalidYAMLError", "MissingYAMLFileError"}

\* The run ends: with an exception of the given kind, or normally.
Exit(p, error) ==
    /\ pc' = [pc EXCEPT ![p] = "exit"]
    /\ err' = [err EXCEPT ![p] = error]
    /\ exitCode' = [exitCode EXCEPT ![p] = IF error = "None" THEN 0 ELSE 1]
    /\ reported' = [reported EXCEPT ![p] = Caught(error)]
    /\ branch' = [branch EXCEPT ![p] = "none"]

\* The existence test left out: open() raises FileNotFoundError.
LoadErrorUnchecked(doc) ==
    CASE doc.kind = "absent" -> "FileNotFoundError"
      [] doc.kind = "malformed" -> "InvalidYAMLError"
      [] OTHER -> "None"

\* LaravelYamlGenerator._load_schema
LoadError(doc) ==
    CASE doc.kind = "absent" -> "MissingYAMLFileError"
      [] doc.kind = "malformed" -> "InvalidYAMLError"
      [] OTHER -> "None"

\* main(): the generator is constructed; generate() follows when it loaded.
Main(p, doc) ==
    /\ pc[p] \in {"idle", "exit"}
    /\ runs < MaxRuns
    /\ runs' = runs + 1
    /\ log' = [log EXCEPT ![p] = <<>>]
    /\ before' = [before EXCEPT ![p] = Cardinality(MigrationFiles)]
    /\ allSame' = (allSame /\ (runs = 0 \/ doc.schema = first))
    /\ first' = IF allSame' THEN doc.schema ELSE <<>>
    /\ source' = [source EXCEPT ![p] = doc.kind]
    /\ IF LoadError(doc) # "None"
       THEN /\ Exit(p, LoadError(doc))
            /\ schema' = [schema EXCEPT ![p] = <<>>]
            /\ idx' = [idx EXCEPT ![p] = 0]
       ELSE /\ schema' = [schema EXCEPT ![p] = doc.schema]
            /\ idx' = [idx EXCEPT ![p] = 1]
            /\ pc' = [pc EXCEPT ![p] = "probe"]
            /\ err' = [err EXCEPT ![p] = "None"]
            /\ exitCode' = [exitCode EXCEPT ![p] = 0]
            /\ reported' = [reported EXCEPT ![p] = FALSE]
            /\ branch' = [branch EXCEPT ![p] = "none"]
    /\ UNCHANGED <<fs, now>>

\* Only the absent key is refused.
ColumnsMissingKeyOnly(config) == ~config.hasColumns

\* `if not columns` on config.get('columns', {}): the key is absent or empty.
ColumnsMissing(config) == ~config.hasColumns \/ config.columns = <<>>

\* _generate_migration up to the branch on check_table_exists.
Probe(p) ==
    /\ pc[p] = "probe"
    /\ LET config == Current(p).config
       IN IF ColumnsMissing(config)
          THEN Exit(p, "MissingRequiredKeyError")
          ELSE /\ branch' = [branch EXCEPT ![p] =
                      IF check_table_exists(TableName(Current(p)))
                      THEN "update" ELSE "create"]
               /\ pc' = [pc EXCEPT ![p] = "write"]
               /\ UNCHANGED <<err, exitCode, reported>>
    /\ UNCHANGED <<fs, now, runs, source, schema, idx, log, before, first, allSame>>

\* _create_new_migration
CreateNewMigration(p) ==
    /\ pc[p] = "write"
    /\ branch[p] = "create"
    /\ LET table_name == TableName(Current(p))
           columns == Current(p).config.columns
           file_path == MigrationPath(now, "create", table_name)
           stub == Content("migration.stub", table_name, "",
                           ColumnDefinitions(columns), <<>>, <<>>, <<>>)
       IN IF CreateRaises(columns)
          THEN /\ Exit(p, "UnsupportedColumnTypeError")
               /\ UNCHANGED <<fs, log>>
          ELSE /\ fs' = write_file(fs, file_path, stub)
               /\ log' = [log EXCEPT ![p] =
                      Append(@, Event(idx[p], "migration", file_path, now, TRUE, stub))]
               /\ pc' = [pc EXCEPT ![p] = "model"]
               /\ UNCHANGED <<err, exitCode, reported, branch>>
    /\ UNCHANGED <<now, runs, source, schema, idx, before, first, allSame>>

\* _generate_update_migration
GenerateUpdateMigration(p) ==
    /\ pc[p] = "write"
    /\ branch[p] = "update"
    /\ LET table_name == TableName(Current(p))
           columns == Current(p).config.columns
           file_path == MigrationPath(now, "update", table_name)
           stub == Content("update_migration.stub", table_name, "",
                           UpdateColumnDefinitions(table_name, columns),
                           <<>>, <<>>, <<>>)
       IN IF UpdateRaises(table_name, columns)
          THEN /\ Exit(p, "UnsupportedColumnTypeError")
               /\ UNCHANGED <<fs, log>>
          ELSE /\ fs' = write_file(fs, file_path, stub)
               /\ log' = [log EXCEPT ![p] =
                      Append(@, Event(idx[p], "migration", file_path, now, TRUE, stub))]
               /\ pc' = [pc EXCEPT ![p] = "model"]
               /\ UNCHANGED <<err, exitCode, reported, branch>>
    /\ UNCHANGED <<now, runs, source, schema, idx, before, first, allSame>>

\* The file is written whether or not it exists.
ShouldWriteAlways(file_path) == TRUE

\* `if not os.path.exists(path)` before a model or a resource is written.
ShouldWrite(file_path) == file_path \notin DOMAIN fs

\* _generate_model
GenerateModel(p) ==
    /\ pc[p] = "model"
    /\ LET model_name == Current(p).name
           relations == Current(p).config.relations
           model_path == ModelPath(model_name)
           model_stub == Content("model.stub", TableName(Current(p)), model_name,
                                 <<>>, Relations(relations), <<>>, <<>>)
       IN IF RelationsRaise(relations)
          THEN /\ Exit(p, "InvalidRelationError")
               /\ UNCHANGED <<fs, log>>
          ELSE /\ fs' = IF ShouldWrite(model_path)
                        THEN write_file(fs, model_path, model_stub) ELSE fs
               /\ log' = [log EXCEPT ![p] =
                      Append(@, Event(idx[p], "model", model_path, -1,
                                      ShouldWrite(model_path), model_stub))]
               /\ pc' = [pc EXCEPT ![p] = "resource"]
               /\ UNCHANGED <<err, exitCode, reported, branch>>
    /\ UNCHANGED <<now, runs, source, schema, idx, before, first, allSame>>

\* _generate_filament_resource, and generate()'s step to the next entity.
GenerateFilamentResource(p) ==
    /\ pc[p] = "resource"
    /\ LET model_name == Current(p).name
           fields == Current(p).config.fields
           resource_path == ResourcePath(model_name)
           resource_stub == Content("filament_resource.stub", <<>>, model_name, <<>>,
                                    <<>>, FormFields(fields), TableColumns(fields))
       IN /\ fs' = IF ShouldWrite(resource_path)
                   THEN write_file(fs, resource_path, resource_stub) ELSE fs
          /\ log' = [log EXCEPT ![p] =
                 Append(@, Event(idx[p], "resource", resource_path, -1,
                                 ShouldWrite(resource_path), resource_stub))]
    /\ IF idx[p] < Len(schema[p])
       THEN /\ idx' = [idx EXCEPT ![p] = @ + 1]
            /\ pc' = [pc EXCEPT ![p] = "probe"]
            /\ UNCHANGED <<err, exitCode, reported, branch>>
       ELSE /\ Exit(p, "None")
            /\ UNCHANGED idx
    /\ UNCHANGED <<now, runs, source, schema, before, first, allSame>>

\* The wall clock reaches the next second.
Tick ==
    /\ now < MaxTime
    /\ now' = now + 1
    /\ UNCHANGED <<fs, runs, pc, source, schema, idx, branch, err, exitCode, reported,
                   log, before, first, allSame>>

Next ==
    \/ \E p \in SeqProcs, doc \in Documents : Main(p, doc)
    \/ \E p \in SeqProcs : Probe(p)
    \/ \E p \in SeqProcs : CreateNewMigration(p)
    \/ \E p \in SeqProcs : GenerateUpdateMigration(p)
    \/ \E p \in SeqProcs : GenerateModel(p)
    \/ \E p \in SeqProcs : GenerateFilamentResource(p)
    \/ Tick

Spec == Init /\ [][Next]_vars

\* Two instances against the same project root, their steps interleaved.
ConcurrentSchemas ==
    {<<[name |-> "User", config |-> kPlain]>>,
     <<[name |-> "User", config |-> kPlain], [name |-> "Post", config |-> kPlain]>>}

ConcurrentDocuments == {[kind |-> "schema", schema |-> s] : s \in ConcurrentSchemas}

\* Each instance is one invocation of the command.
MainOnce(p, doc) == pc[p] = "idle" /\ Main(p, doc)

NextC ==
    \/ \E p \in Procs, doc \in ConcurrentDocuments : MainOnce(p, doc)
    \/ \E p \in Procs : Probe(p)
    \/ \E p \in Procs : CreateNewMigration(p)
    \/ \E p \in Procs : GenerateUpdateMigration(p)
    \/ \E p \in Procs : GenerateModel(p)
    \/ \E p \in Procs : GenerateFilamentResource(p)
    \/ Tick

SpecC == Init /\ [][NextC]_vars

\* ============================================================== claims
Tables == {<<"users">>, <<"posts">>, <<"users", "table", "log">>}

Events(p) == {log[p][i] : i \in 1..Len(log[p])}

MigrationEvents(p) == {e \in Events(p) : e.kind = "migration"}

Last(seq) == seq[Len(seq)]

\* The entity gives no columns: the key is absent, or its mapping is empty.
GivesNoColumns(entity) == ~entity.config.hasColumns \/ Len(entity.config.columns) = 0

\* C1: every write of a migration file goes to a path that did not exist
\* before the write, whatever the timing of the runs and whatever the schema.
C1_MigrationNeverOverwrites ==
    \A p \in Procs : \A e \in MigrationEvents(p) : ~e.existed

\* C2: with the same valid, non-empty schema in every run, each run that
\* completes without error leaves more migration files than it found.
C2_MigrationsStrictlyGrow ==
    \A p \in SeqProcs :
        (pc[p] = "exit" /\ err[p] = "None" /\ source[p] = "schema" /\ allSame)
            => Cardinality(MigrationFiles) > before[p]

\* C3: no migration file is written for an entity that has a column whose
\* type is outside the six supported types, on the creation path and on the
\* update path alike; the run ends with UnsupportedColumnTypeError instead.
C3_UnsupportedTypeWritesNothing ==
    \A p \in SeqProcs :
        /\ \A e \in MigrationEvents(p) :
              \A i \in 1..Len(schema[p][e.ent].config.columns) :
                  schema[p][e.ent].config.columns[i].type \in
                      {"id", "string", "text", "integer", "timestamps",
                       "unsignedBigInteger"}
        /\ (pc[p] = "exit" /\ err[p] = "None" /\ source[p] = "schema") =>
              \A n \in 1..Len(schema[p]) :
                  \A i \in 1..Len(schema[p][n].config.columns) :
                      schema[p][n].config.columns[i].type # "invalid_type"

\* C4: a model file or a resource file that exists is never changed or
\* removed by any step of any run, whatever the schema says for its entity.
C4_ExistingModelAndResourceKept ==
    [][\A f \in DOMAIN fs :
          f.dir \in {ModelsDir, ResourcesDir} =>
              (f \in DOMAIN fs' /\ fs'[f] = fs[f])]_vars

\* C4, the case: a run met an existing model and an existing resource whose
\* content the schema would now render differently, and left both as they were.
C4_Witness ==
    \E p \in SeqProcs :
        /\ \E e \in Events(p) :
              e.kind = "model" /\ e.existed /\ ~e.wrote /\ fs[e.path] # e.content
        /\ \E e \in Events(p) :
              e.kind = "resource" /\ e.existed /\ ~e.wrote /\ fs[e.path] # e.content

\* C5: an entity whose columns key is absent or empty gets no file at all;
\* the run ends at it with MissingRequiredKeyError, the files of the earlier
\* entities are still there and no later entity is processed.
C5_MissingColumnsAbortsBeforeWriting ==
    \A p \in Procs :
        /\ \A e \in Events(p) : ~GivesNoColumns(schema[p][e.ent])
        /\ (schema[p] # <<>> /\ GivesNoColumns(Current(p))) =>
              \/ pc[p] = "probe"
              \/ /\ pc[p] = "exit"
                 /\ err[p] = "MissingRequiredKeyError"
                 /\ \A e \in Events(p) : e.ent < idx[p] /\ e.path \in DOMAIN fs

\* C5, the case: the second entity has no columns, its table exists already,
\* the first entity's files were written and the run has ended with the error.
C5_Witness ==
    \E p \in SeqProcs :
        /\ pc[p] = "exit"
        /\ err[p] = "MissingRequiredKeyError"
        /\ idx[p] = 2
        /\ log[p] # <<>>
        /\ check_table_exists(TableName(Current(p)))

\* C6: a run over N entities that completes without error has made N model
\* attempts and N resource attempts and has written at least N migration files.
C6_OneOfEachPerEntity ==
    \A p \in SeqProcs :
        (pc[p] = "exit" /\ err[p] = "None" /\ source[p] = "schema") =>
            /\ Cardinality({i \in 1..Len(log[p]) : log[p][i].kind = "model"})
                   = Len(schema[p])
            /\ Cardinality({i \in 1..Len(log[p]) : log[p][i].kind = "resource"})
                   = Len(schema[p])
            /\ Cardinality({e.path : e \in MigrationEvents(p)}) >= Len(schema[p])

\* C7: once a migration has been emitted for table T, exactly one file whose
\* name contains create_T_table exists.
C7_ExactlyOneCreateMigration ==
    \A T \in Tables :
        (\E f \in MigrationFiles :
            f.name \in {<<"create">> \o T \o <<"table">>, <<"update">> \o T \o <<"table">>})
        => Cardinality({f \in MigrationFiles :
                          Contains(f.name, <<"create">> \o T \o <<"table">>)}) = 1

\* Two creation emissions, one by each instance, for the same table.
BothCreated(e1, e2) ==
    /\ e1.path.name[1] = "create"
    /\ e2.path.name = e1.path.name

\* C8: when both concurrent instances have taken the creation path for the
\* same table, two create migrations of that table exist if their timestamps
\* differ, and both wrote the same file (one write is lost) if they are equal.
C8_ConcurrentCreationRace ==
    \A e1 \in MigrationEvents(1), e2 \in MigrationEvents(2) :
        BothCreated(e1, e2) =>
            IF e1.at # e2.at
            THEN e1.path # e2.path /\ {e1.path, e2.path} \subseteq DOMAIN fs
            ELSE e1.path = e2.path /\ (e1.existed \/ e2.existed)

\* C8, the case: both outcomes of the race in one state, a table with two
\* create migrations and a table whose create migration was written twice.
C8_Witness ==
    /\ \E e1 \in MigrationEvents(1), e2 \in MigrationEvents(2) :
          BothCreated(e1, e2) /\ e1.at # e2.at
    /\ \E e1 \in MigrationEvents(1), e2 \in MigrationEvents(2) :
          BothCreated(e1, e2) /\ e1.at = e2.at

\* C9: a schema path with no file ends the construction with
\* MissingYAMLFileError and an unparseable document with InvalidYAMLError;
\* generate() does not run, nothing is written, and main() prints a message
\* and exits with 1 for these two kinds of error and for no other.
C9_LoadFailuresAtConstruction ==
    \A p \in SeqProcs :
        /\ source[p] = "absent" => err[p] = "MissingYAMLFileError"
        /\ source[p] = "malformed" => err[p] = "InvalidYAMLError"
        /\ source[p] \in {"absent", "malformed"} =>
              /\ pc[p] = "exit"
              /\ log[p] = <<>>
              /\ Cardinality(MigrationFiles) = before[p]
              /\ exitCode[p] = 1
              /\ reported[p]
        /\ reported[p] => source[p] \in {"absent", "malformed"}

\* C9, the case: an unparseable document met a project root that holds files.
C9_Witness ==
    \E p \in SeqProcs :
        source[p] = "malformed" /\ pc[p] = "exit" /\ DOMAIN fs # {}

\* The creation migration of the table defines the column: one of its
\* definitions is $table-><type>('<column>').
DefinedByCreation(table_name, column_name) ==
    \E f \in MigrationFiles :
        /\ f.name = <<"create">> \o table_name \o <<"table">>
        /\ \E i \in 1..(Len(fs[f].columns) - 6) :
              /\ fs[f].columns[i] = "$table->"
              /\ SubSeq(fs[f].columns, i + 2, i + 6)
                     = <<"(", "'", column_name, "'", ")">>

NotDefinedByCreation(c, table_name) == ~DefinedByCreation(table_name, c.name)

HasCreationMigration(table_name) ==
    \E f \in MigrationFiles : f.name = <<"create">> \o table_name \o <<"table">>

\* C10: when the table has a creation migration, the update migration just
\* written defines, in schema order, exactly the columns of the entity that
\* the creation migration does not define.
C10_UpdateDefinesExactlyTheNewColumns ==
    \A p \in SeqProcs :
        (/\ pc[p] = "model"
         /\ Last(log[p]).path.name[1] = "update"
         /\ HasCreationMigration(TableName(Current(p)))) =>
            Last(log[p]).content.columns =
                ColumnDefinitions(
                    SelectSeq(Current(p).config.columns,
                              LAMBDA c : NotDefinedByCreation(c, TableName(Current(p)))))

\* The text holds a definition $table-><type>('<column>') of the column.
Defines(content, column_name) ==
    \E i \in 1..(Len(content.columns) - 6) :
        /\ content.columns[i] = "$table->"
        /\ SubSeq(content.columns, i + 2, i + 6) = <<"(", "'", column_name, "'", ")">>

\* The migration files of the table, its creation and its updates.
MigrationsOf(table_name) ==
    {f \in MigrationFiles :
        f.name \in {<<"create">> \o table_name \o <<"table">>,
                    <<"update">> \o table_name \o <<"table">>}}

ColumnNames == {"name", "user_id", "id"}

\* C11: across sequential runs each column of a table is defined in at most
\* one migration file of that table: a column emitted once, by the creation
\* or by an update, is not emitted again by a later run.
C11_ColumnDefinedAtMostOnce ==
    \A T \in Tables, c \in ColumnNames :
        Cardinality({f \in MigrationsOf(T) : Defines(fs[f], c)}) <= 1

\* The entity has a relation whose type is none of the four supported ones.
HasBadRelation(entity) ==
    \E i \in 1..Len(entity.config.relations) :
        entity.config.relations[i].type \notin
            {"hasMany", "belongsTo", "hasOne", "belongsToMany"}

\* C12: an entity with a relation of an unsupported type gets its migration
\* and then ends the run with InvalidRelationError: no model and no resource
\* is attempted for it, whether or not its model file exists; the files of
\* the earlier entities and its own migration stay, and no later entity is
\* processed.
C12_BadRelationAbortsAfterMigration ==
    \A p \in SeqProcs :
        /\ \A e \in Events(p) :
              e.kind \in {"model", "resource"} => ~HasBadRelation(schema[p][e.ent])
        /\ (schema[p] # <<>> /\ HasBadRelation(Current(p))) =>
              /\ pc[p] \in {"probe", "write", "model", "exit"}
              /\ (pc[p] = "exit" /\ \E e \in MigrationEvents(p) : e.ent = idx[p]) =>
                    /\ err[p] = "InvalidRelationError"
                    /\ exitCode[p] = 1
                    /\ \A e \in Events(p) : e.ent <= idx[p] /\ e.path \in DOMAIN fs
              /\ pc[p] = "exit" => err[p] # "None"

\* C12, the case: the second entity has the bad relation and its model file
\* exists already; its migration was written and the run ended with the error.
C12_Witness ==
    \E p \in SeqProcs :
        /\ pc[p] = "exit"
        /\ err[p] = "InvalidRelationError"
        /\ idx[p] = 2
        /\ HasBadRelation(Current(p))
        /\ ModelPath(Current(p).name) \in DOMAIN fs
        /\ \E e \in MigrationEvents(p) : e.ent = 2
        /\ \E e \in Events(p) : e.ent = 1 /\ e.kind = "model"

====
